---- MODULE Spec2Model ----
(***************************************************************************)
(* State-machine model of synthpops/long_term_care_facilities.py:          *)
(* generate_microstructure_with_faciities (facility calibration, facility  *)
(* partition, household generation, staff assignment) and                  *)
(* make_contacts_with_facilities_from_microstructure_objects.              *)
(*                                                                         *)
(* Arithmetic.  The program computes with binary floating point; the model *)
(* computes with exact rationals, a distribution being a record            *)
(* [num |-> (age -> Int), den |-> Int] whose entry at age a is             *)
(* num[a] / den.  Rounding error of the floats is not modelled.            *)
(***************************************************************************)
EXTENDS Integers, Sequences, FiniteSets, TLC

VARIABLES
    pc,                                  \* position in the pipeline
    facillity_users,                     \* lines 297-302
    est_seattle_users_2018,              \* lines 363-377
    gen_pop_size,                        \* target population size (argument)
    KC_ltcf_sizes,                       \* line 453: resident totals of the KC facility records
    expected_users_by_age,               \* lines 415-444
    shuffled_residents,                  \* history: all_residents right after the shuffle
    all_residents,                       \* lines 476-479, consumed at 484-488
    facilities,                          \* line 482
    drawn_sizes,                         \* history: size drawn for each facility
    n,                                   \* line 507
    hh_sizes,                            \* line 511
    N,                                   \* generate_all_households argument N
    single_year_age_distr,               \* generate_all_households argument, depleted in place
    homes_dic,                           \* line 155
    homes,                               \* line 165-169, then 518
    homes_by_uids,                       \* line 520
    age_by_uid_dic,                      \* line 520
    facilities_by_uids,                  \* line 523
    gen_school_uids,                     \* line 558/568
    potential_worker_uids,               \* line 564/568
    potential_worker_uids_by_age,        \* line 564/568
    workers_by_age_to_assign_count,      \* line 565/568
    facilities_staff,                    \* line 572
    facilities_staff_uids,               \* line 573
    drawn_ratios,                        \* history: ratio drawn for each facility
    nf,                                  \* loop variable of line 575
    n_staff,                             \* line 579
    new_staff,                           \* line 581
    new_staff_uids,                      \* line 581
    gen_workplace_uids,                  \* line 610
    regular_homes,                       \* line 254 (the local rebinding of homes_by_uids)
    popdict                              \* line 242

vars == <<pc, facillity_users, est_seattle_users_2018, gen_pop_size, KC_ltcf_sizes, expected_users_by_age, shuffled_residents,
          all_residents, facilities, drawn_sizes, n, hh_sizes, N,
          single_year_age_distr, homes_dic, homes, homes_by_uids,
          age_by_uid_dic, facilities_by_uids, gen_school_uids, potential_worker_uids,
          potential_worker_uids_by_age, workers_by_age_to_assign_count, facilities_staff,
          facilities_staff_uids, drawn_ratios, nf, n_staff, new_staff, new_staff_uids,
          gen_workplace_uids, regular_homes, popdict>>

surveyVars == <<facillity_users, est_seattle_users_2018>>
calibVars == <<surveyVars, gen_pop_size, KC_ltcf_sizes, expected_users_by_age>>
poolVars == <<shuffled_residents, all_residents, facilities, drawn_sizes>>
adjustVars == <<n>>
houseVars == <<hh_sizes, N, single_year_age_distr, homes_dic, homes>>
uidVars == <<homes_by_uids, age_by_uid_dic, facilities_by_uids>>
workerVars == <<gen_school_uids, potential_worker_uids, potential_worker_uids_by_age,
                workers_by_age_to_assign_count>>
staffVars == <<facilities_staff, facilities_staff_uids, drawn_ratios, nf, n_staff,
               new_staff, new_staff_uids>>
contactVars == <<gen_workplace_uids, regular_homes, popdict>>

----------------------------------------------------------------------------
(* Bounds of the model *)

\* largest gen_pop_size tried; every size from 1 up to it is tried
MaxPop == 7
\* the facility-partition loop is cut off after this many facilities
MaxFacilities == 3
\* uids of the population the contact builder is run on directly
NumUids == 2

----------------------------------------------------------------------------
(* Generic helpers *)

Min(a, b) == IF a <= b THEN a ELSE b

\* math.ceil(a / b) for b > 0
Ceil(a, b) == -((-a) \div b)

\* int(a / b) for b > 0: truncation toward zero
Trunc(a, b) == IF a >= 0 THEN a \div b ELSE -((-a) \div b)

RECURSIVE SumSeq(_)
SumSeq(s) == IF s = <<>> THEN 0 ELSE Head(s) + SumSeq(Tail(s))

\* the sum of f over the integers lo..hi, by halving
RECURSIVE SumRange(_, _, _)
SumRange(f, lo, hi) ==
    IF lo > hi THEN 0
    ELSE IF lo = hi THEN f[lo]
    ELSE LET mid == (lo + hi) \div 2 IN SumRange(f, lo, mid) + SumRange(f, mid + 1, hi)

\* the sum of f over the set S
RECURSIVE SumOver(_, _)
SumOver(f, S) ==
    IF S = {} THEN 0 ELSE LET x == CHOOSE y \in S : TRUE IN f[x] + SumOver(f, S \ {x})

RECURSIVE Flatten(_)
Flatten(ss) == IF ss = <<>> THEN <<>> ELSE Head(ss) \o Flatten(Tail(ss))

Range(s) == {s[i] : i \in DOMAIN s}

Lens(ss) == [i \in DOMAIN ss |-> Len(ss[i])]

\* [x] * k
Repeat(x, k) == [i \in 1..k |-> x]

\* every ordering of the sequence s (np.random.shuffle)
Shuffles(s) == {[i \in DOMAIN s |-> s[p[i]]] : p \in Permutations(DOMAIN s)}

\* d[k] = v on a dict: the key is added when it is missing
Put(d, k, v) == [x \in (DOMAIN d) \cup {k} |-> IF x = k THEN v ELSE d[x]]

\* s[lo:] and s[:hi] of a Python list, 0 <= lo, hi
SliceFrom(s, lo) == SubSeq(s, lo + 1, Len(s))
SliceTo(s, hi) == SubSeq(s, 1, Min(hi, Len(s)))

\* Exact fractions [num, den] in lowest terms with den > 0, which stand for
\* the floats of the survey estimate; factors are cancelled before they are
\* multiplied so that the products stay small
Abs(a) == IF a < 0 THEN -a ELSE a

RECURSIVE GCDNat(_, _)
GCDNat(a, b) == IF b = 0 THEN a ELSE GCDNat(b, a % b)

GCD(a, b) == GCDNat(Abs(a), Abs(b))

Rat(a, b) ==
    LET g == GCD(a, b)
    IN IF b > 0 THEN [num |-> a \div g, den |-> b \div g]
                ELSE [num |-> (-a) \div g, den |-> (-b) \div g]

RatMul(x, y) ==
    LET g1 == GCD(x.num, y.den)
        g2 == GCD(y.num, x.den)
    IN Rat((x.num \div g1) * (y.num \div g2), (x.den \div g2) * (y.den \div g1))

\* x / y for y /= 0
RatDiv(x, y) == RatMul(x, Rat(y.den, y.num))

RatAdd(x, y) ==
    LET g == GCD(x.den, y.den)
    IN Rat(x.num * (y.den \div g) + y.num * (x.den \div g), (x.den \div g) * y.den)

RECURSIVE RatSum(_)
RatSum(s) == IF s = <<>> THEN Rat(0, 1) ELSE RatAdd(RatSum(SliceTo(s, Len(s) - 1)), s[Len(s)])

----------------------------------------------------------------------------
(* Ages and brackets *)

max_age == 100
Ages == 0..max_age

\* first age that can be a facility resident, one past the last
resident_age_lo == 60
resident_age_hi == 101
ResidentAges == resident_age_lo..(resident_age_hi - 1)

\* staff_age_range = np.arange(20, 60)
staff_age_lo == 20
staff_age_hi == 60
staff_age_range == staff_age_lo..(staff_age_hi - 1)

\* census brackets of the 16-bracket table: 0-4, ..., 70-74, 75-100
\* (brackets 12..15 are the elderly ones, line 350)
age_brackets_16 == [b \in 0..15 |-> IF b < 15 THEN (5 * b)..(5 * b + 4) ELSE 75..max_age]
age_by_brackets_dic_16 == [a \in Ages |-> IF a < 75 THEN a \div 5 ELSE 15]

\* census brackets of the 18-bracket table: 0-4, ..., 80-84, 85-100
age_brackets_18 == [b \in 0..17 |-> IF b < 17 THEN (5 * b)..(5 * b + 4) ELSE 85..max_age]
age_by_brackets_dic_18 == [a \in Ages |-> IF a < 85 THEN a \div 5 ELSE 17]

\* denominator of the bracket masses of the input tables
BracketDen == 2 * 5
\* common multiple of the bracket widths 5 and 26
WidthLcm16 == 5 * 26

----------------------------------------------------------------------------
(* Input tables: data files read through the sp library *)

\* age_distr_16[b] / BracketDen is the mass of bracket b (line 341):
\* 5-9: 0.2, 25-29: 0.6, 60-64: 0.2
age_distr_16 ==
    [b \in 0..15 |-> IF b = 1 THEN 2 ELSE IF b = 5 THEN 6 ELSE IF b = 12 THEN 2 ELSE 0]

\* age_distr_18[b] / BracketDen is the mass of bracket b (line 406):
\* 5-9: 0.2, 25-29: 0.6, 60-64: 0.2
age_distr_18 ==
    [b \in 0..17 |-> IF b = 1 THEN 2 ELSE IF b = 5 THEN 6 ELSE IF b = 12 THEN 2 ELSE 0]

\* usage percentage of each bracket after the remap of lines 388-394
est_ltcf_user_by_age_brackets_perc ==
    [k \in {"60-64", "65-69", "70-74", "75-79", "80-84", "85-100"} |->
        IF k = "85-100" THEN [num |-> 1, den |-> 5] ELSE [num |-> 1, den |-> 10]]

\* KC facility records (lines 449-454): the resident totals per facility of the
\* record file the pipeline is run with, and the staff totals per facility
KC_resident_totals == <<5, 3>>
KC_staff_sizes == <<2, 1>>

\* resident totals a record file can hold: a facility without residents has total 0
KC_resident_totals_possible == {KC_resident_totals, <<3, 0>>, <<0, 0>>}

\* line 457: ratio i is KC_ltcf_sizes[i] / KC_staff_sizes[i]
KC_resident_staff_ratios ==
    [i \in DOMAIN KC_ltcf_sizes |-> [num |-> KC_ltcf_sizes[i], den |-> KC_staff_sizes[i]]]

\* household sizes that have positive probability in household_size_distr (line 509)
household_size_support == {1, 2, 3}

----------------------------------------------------------------------------
(* Survey estimate of the facility users, lines 293-377 *)

\* lines 294-295 (the bracket keys are written with a plain hyphen here)
ltcf_age_bracket_keys == <<"Under 65", "65-74", "75-84", "85 and over">>
facility_keys == <<"Hospice", "Nursing home", "Residential care community">>

\* keys of est_seattle_users_2018 (line 363)
state_bracket_keys == <<"60-64", "65-74", "75-84", "85-100">>

\* lines 368-375: the key of est_seattle_users_2018 a survey bracket is added to
state_bracket_of(ab) ==
    IF ab = "Under 65" THEN "60-64"
    ELSE IF ab = "65-74" THEN "65-74"
    ELSE IF ab = "75-84" THEN "75-84"
    ELSE "85-100"

\* the 'Number of users' entry of a facility type in the survey file, and its
\* row of bracket percentages in the order of ltcf_age_bracket_keys
survey_totals_possible == {10, 40, 100}
survey_percentages_possible == {<<10, 20, 30, 40>>, <<0, 25, 25, 50>>}

\* lines 299-302: one facility type's entry, the percentages divided by 100
facility_entry(total, percentages) ==
    [k \in {"Total"} \cup Range(ltcf_age_bracket_keys) |->
        IF k = "Total" THEN total
        ELSE Rat(percentages[CHOOSE i \in DOMAIN ltcf_age_bracket_keys :
                                 ltcf_age_bracket_keys[i] = k], 100)]

\* every table lines 297-302 can build from such survey files
facillity_users_possible ==
    {[fk \in Range(facility_keys) |-> facility_entry(t[fk], p[fk])] :
        t \in [Range(facility_keys) -> survey_totals_possible],
        p \in [Range(facility_keys) -> survey_percentages_possible]}

\* line 304
total_facility_users(users) == SumOver([fk \in Range(facility_keys) |-> users[fk]["Total"]],
                                       Range(facility_keys))

\* lines 307-321, the percentages of lines 309-312 and 316-319 divided by 100
state_pop_2016 == 7288000
state_age_distr_2016 ==
    [a \in Range(state_bracket_keys) |->
        IF a = "60-64" THEN Rat(63, 1000) ELSE IF a = "65-74" THEN Rat(90, 1000)
        ELSE IF a = "75-84" THEN Rat(40, 1000) ELSE Rat(18, 1000)]
state_pop_2018 == 7535591
state_age_distr_2018 ==
    [a \in Range(state_bracket_keys) |->
        IF a = "60-64" THEN Rat(63, 1000) ELSE IF a = "65-74" THEN Rat(95, 1000)
        ELSE IF a = "75-84" THEN Rat(43, 1000) ELSE Rat(18, 1000)]

\* lines 323-327
num_state_elderly_2016 ==
    RatSum([i \in DOMAIN state_bracket_keys |->
               RatMul(Rat(state_pop_2016, 1), state_age_distr_2016[state_bracket_keys[i]])])
num_state_elderly_2018 ==
    RatSum([i \in DOMAIN state_bracket_keys |->
               RatMul(Rat(state_pop_2018, 1), state_age_distr_2018[state_bracket_keys[i]])])

\* line 346
pop == 2250000

\* lines 349-351
local_elderly_2018 ==
    RatSum([i \in 1..4 |-> RatMul(Rat(age_distr_16[11 + i], BracketDen), Rat(pop, 1))])

\* lines 356-357
growth_since_2016 == RatDiv(num_state_elderly_2018, num_state_elderly_2016)
local_perc_elderly_2018 == RatDiv(local_elderly_2018, num_state_elderly_2018)

\* line 377: what one survey bracket of one facility type adds to its bracket
users_added(users, fk, ab) ==
    RatDiv(RatMul(RatMul(users[fk][ab], Rat(users[fk]["Total"], 1)), Rat(pop, 1)),
           Rat(state_pop_2018, 1))

\* lines 363-377: the loop over the facility types and their brackets
estimated_users(users) ==
    [b \in Range(state_bracket_keys) |->
        LET ab == CHOOSE k \in Range(ltcf_age_bracket_keys) : state_bracket_of(k) = b
        IN RatSum([i \in DOMAIN facility_keys |-> users_added(users, facility_keys[i], ab)])]

EstimateUsers ==
    /\ pc = "survey"
    /\ est_seattle_users_2018' = estimated_users(facillity_users)
    /\ pc' = "survey_done"
    /\ UNCHANGED <<facillity_users, gen_pop_size, KC_ltcf_sizes, expected_users_by_age,
                   poolVars, adjustVars, houseVars, uidVars, workerVars, staffVars,
                   contactVars>>

----------------------------------------------------------------------------
(* Calibration, lines 413-444 *)

\* the usage-percentage key the branch of lines 418-444 picks for age a
perc_key(a) ==
    IF a < 65 THEN "60-64" ELSE IF a < 75 THEN "70-74" ELSE IF a < 85 THEN "80-84" ELSE "85-100"

\* lines 419-423 (and the three copies of them)
expected_users(size, a) ==
    LET b == age_by_brackets_dic_18[a]
        p == est_ltcf_user_by_age_brackets_perc[perc_key(a)]
    IN Ceil(size * age_distr_18[b] * p.num,
            BracketDen * Cardinality(age_brackets_18[b]) * p.den)

\* variant of lines 415-444 in which a random draw adds a user to the table
Calibrate_with_draw ==
    /\ pc = "calibrate"
    /\ \E extra \in {0, 1} :
          expected_users_by_age' =
              [a \in ResidentAges |-> expected_users(gen_pop_size, a) + extra]
    /\ pc' = "pool"
    /\ UNCHANGED <<surveyVars, gen_pop_size, KC_ltcf_sizes, poolVars, adjustVars, houseVars,
                   uidVars, workerVars, staffVars, contactVars>>

Calibrate ==
    /\ pc = "calibrate"
    /\ expected_users_by_age' = [a \in ResidentAges |-> expected_users(gen_pop_size, a)]
    /\ pc' = "pool"
    /\ UNCHANGED <<surveyVars, gen_pop_size, KC_ltcf_sizes, poolVars, adjustVars, houseVars, uidVars,
                   workerVars, staffVars, contactVars>>

----------------------------------------------------------------------------
(* Resident pool and facility partition, lines 476-488 *)

\* lines 476-478: each age repeated by its count, in increasing age
RECURSIVE ExpandResidents(_, _, _)
ExpandResidents(users, lo, hi) ==
    IF lo > hi THEN <<>>
    ELSE IF lo = hi THEN Repeat(lo, users[lo])
    ELSE LET mid == (lo + hi) \div 2
         IN ExpandResidents(users, lo, mid) \o ExpandResidents(users, mid + 1, hi)

\* lines 476-479
ShuffleResidents ==
    /\ pc = "pool"
    /\ \E shuffled \in Shuffles(ExpandResidents(expected_users_by_age, resident_age_lo, resident_age_hi - 1)) :
          /\ all_residents' = shuffled
          /\ shuffled_residents' = shuffled
    /\ pc' = "partition"
    /\ UNCHANGED <<calibVars, facilities, drawn_sizes, adjustVars, houseVars, uidVars,
                   workerVars, staffVars, contactVars>>

\* line 486
new_facility(residents, size) == SliceTo(residents, size)
\* variant of line 488 that draws with replacement: the pool is left as it was
rest_of_residents_kept(residents, size) == residents

\* line 488
rest_of_residents(residents, size) == SliceFrom(residents, size)

\* one iteration of the while loop, lines 484-488
PlaceFacility ==
    /\ pc = "partition"
    /\ Len(all_residents) > 0
    /\ Len(facilities) < MaxFacilities
    /\ \E i \in DOMAIN KC_ltcf_sizes :
          LET size == KC_ltcf_sizes[i] IN
          /\ facilities' = Append(facilities, new_facility(all_residents, size))
          /\ all_residents' = rest_of_residents(all_residents, size)
          /\ drawn_sizes' = Append(drawn_sizes, size)
    /\ UNCHANGED <<pc, calibVars, shuffled_residents, adjustVars, houseVars, uidVars,
                   workerVars, staffVars, contactVars>>

----------------------------------------------------------------------------
(* Hand-off to household generation, lines 491-507 *)

\* line 498, as a numerator over BracketDen * WidthLcm16
expected_age_distr_num(a) ==
    LET b == age_by_brackets_dic_16[a]
    IN age_distr_16[b] * (WidthLcm16 \div Cardinality(age_brackets_16[b]))

AgeDen16 == BracketDen * WidthLcm16

\* line 499
expected_count(size, a) == Trunc(size * expected_age_distr_num(a), AgeDen16)

\* lines 501-503
adjusted_count(count, users) ==
    [a \in Ages |-> IF a \in DOMAIN users THEN count[a] - users[a] ELSE count[a]]

\* sp.norm_dic: every value divided by the total, the dict itself when the total is 0
norm_dic(dic) ==
    LET total == SumRange(dic, 0, max_age)
    IN [num |-> dic, den |-> IF total = 0 THEN 1 ELSE total]

\* variant of line 507 that forgets the residents already placed
remaining_population_whole(size, facs) == size

\* line 507
remaining_population(size, facs) == size - SumSeq(Lens(facs))

\* lines 493-504: tables assigned once, functions of the size and of the calibration
expected_age_distr == [num |-> [a \in Ages |-> expected_age_distr_num(a)], den |-> AgeDen16]
expected_age_count == [a \in Ages |-> expected_count(gen_pop_size, a)]
ltcf_adjusted_age_count == adjusted_count(expected_age_count, expected_users_by_age)
ltcf_adjusted_age_distr == norm_dic(ltcf_adjusted_age_count)

\* the loop of line 484 ends; lines 491-507
AdjustAgeCount ==
    /\ pc = "partition"
    /\ Len(all_residents) = 0
    /\ n' = remaining_population(gen_pop_size, facilities)
    /\ pc' = "hh_sizes"
    /\ UNCHANGED <<calibVars, poolVars, houseVars, uidVars, workerVars, staffVars, contactVars>>

----------------------------------------------------------------------------
(* External samplers of the sp library, as their contracts *)

\* household-size counts whose size-weighted total is the number asked for
\* (sp.generate_household_sizes_from_fixed_pop_size); none exists for a negative number
HouseholdSizeVectors(total) ==
    {v \in {[s \in 1..7 |-> IF s \in household_size_support THEN w[s] ELSE 0] :
                w \in [household_size_support -> 0..(IF total > 0 THEN total ELSE 0)]} :
        SumRange([s \in 1..7 |-> s * v[s]], 1, 7) = total}

\* head-of-household age brackets (sp.get_head_age_brackets): 20-24, ..., 65-69, 70-100
hha_brackets == [b \in 0..10 |-> IF b < 10 THEN (20 + 5 * b)..(24 + 5 * b) ELSE 70..max_age]
\* head brackets with positive weight in hha_by_size (every size): 25-29
hha_support == {1}
\* brackets with positive weight in every row of contact_matrix_dic['H']: 5-9, 25-29
contact_support == {1, 5}

\* sp.sample_from_range: an age of lo..hi that has positive mass left
sample_from_range(distr, lo, hi) == {a \in lo..hi : a \in Ages /\ distr.num[a] > 0}

\* the outcomes of a draw that the model enumerates: of the ages the draw can give,
\* the youngest of each five-year bracket
DrawnAges(S) == {a \in S : \A x \in S : x \div 5 = a \div 5 => a <= x}

\* sp.generate_household_head_age_by_size: a head bracket, then an age of it
generate_household_head_age_by_size(distr) ==
    UNION {sample_from_range(distr, CHOOSE x \in hha_brackets[b] : \A y \in hha_brackets[b] : x <= y,
                             CHOOSE x \in hha_brackets[b] : \A y \in hha_brackets[b] : x >= y)
           : b \in hha_support}

\* sp.resample_age: an age with mass left within two years of age a
resample_age(distr, a) == sample_from_range(distr, IF a < 2 THEN 0 ELSE a - 2, a + 2)

\* sp.generate_living_alone: hh_sizes[0] one-person households, each the age of its head
generate_living_alone(sizes, distr) ==
    [1..sizes[1] -> {<<a>> : a \in DrawnAges(generate_household_head_age_by_size(distr))}]

----------------------------------------------------------------------------
(* resample_age_uk, lines 36-68 *)

\* the ages resample_age_uk can return for one of the ages of A: one resampling
\* always (line 46), another one at 7, 6 and 5 when the coin says so (lines 47-55);
\* the coins of lines 56-67 have probability 0
resample_age_uk(distr, A) ==
    LET again(B, a) == IF a \in B THEN B \cup resample_age(distr, a) ELSE B
        B1 == UNION {resample_age(distr, a) : a \in A}
    IN again(again(again(B1, 7), 6), 5)

----------------------------------------------------------------------------
(* generate_larger_households, lines 72-130 *)

\* lines 106-126: the ages one further member of a household can get
member_ages(distr) ==
    LET A0 == UNION {sample_from_range(distr, 5 * b, IF b < 15 THEN 5 * b + 4 ELSE max_age)
                     : b \in contact_support}
        A1 == IF \E a \in A0 : a > 5 /\ a <= 20
              THEN A0 \cup sample_from_range(distr, 25, 32)
              ELSE A0
    IN resample_age_uk(distr, A1)

\* lines 94-130: hh_sizes[size-1] rows, the head's age first
generate_larger_households(size, sizes, distr) ==
    IF sizes[size] = 0 THEN {<<>>}
    ELSE [1..sizes[size] ->
            {<<hha>> \o m : hha \in DrawnAges(generate_household_head_age_by_size(distr)),
                            m \in [1..(size - 1) -> DrawnAges(member_ages(distr))]}]

----------------------------------------------------------------------------
(* generate_all_households, lines 133-170, called at line 517 *)

\* the distribution the call of line 517 passes
household_age_distr == expected_age_distr

\* line 511
GenerateHouseholdSizes ==
    /\ pc = "hh_sizes"
    /\ \E v \in HouseholdSizeVectors(n) : hh_sizes' = v
    /\ pc' = "call_households"
    /\ UNCHANGED <<calibVars, poolVars, adjustVars, N, single_year_age_distr, homes_dic,
                   homes, uidVars, workerVars, staffVars, contactVars>>

\* line 517 (the call) and lines 155-156
GenerateLivingAlone ==
    /\ pc = "call_households"
    /\ N' = n
    /\ single_year_age_distr' = household_age_distr
    /\ \E hs \in generate_living_alone(hh_sizes, household_age_distr) :
          homes_dic' = Put(<<>>, 1, hs)
    /\ pc' = "remove_living_alone"
    /\ UNCHANGED <<calibVars, poolVars, adjustVars, hh_sizes, homes, uidVars,
                   workerVars, staffVars, contactVars>>

\* variant of line 159 that leaves the distribution as it was
remove_one_nothing(distr, a, total) == distr

\* line 159: distr[a] -= 1.0/total, the denominator widened to a multiple of total
remove_one(distr, a, total) ==
    LET d == IF distr.den % total = 0 THEN distr
             ELSE [num |-> [x \in Ages |-> distr.num[x] * total], den |-> distr.den * total]
    IN [num |-> [d.num EXCEPT ![a] = @ - d.den \div total], den |-> d.den]

\* lines 158-159
RECURSIVE remove_living_alone(_, _, _)
remove_living_alone(distr, hs, total) ==
    IF hs = <<>> THEN distr
    ELSE remove_living_alone(remove_one(distr, Head(hs)[1], total), Tail(hs), total)

RemoveLivingAlone ==
    /\ pc = "remove_living_alone"
    /\ single_year_age_distr' = remove_living_alone(single_year_age_distr, homes_dic[1], N)
    /\ pc' = "larger_households"
    /\ UNCHANGED <<calibVars, poolVars, adjustVars, hh_sizes, N, homes_dic, homes, uidVars,
                   workerVars, staffVars, contactVars>>

\* lines 162-163: the working distribution is the same for every size
GenerateLargerHouseholds ==
    /\ pc = "larger_households"
    /\ \E h2 \in generate_larger_households(2, hh_sizes, single_year_age_distr),
          h3 \in generate_larger_households(3, hh_sizes, single_year_age_distr),
          h4 \in generate_larger_households(4, hh_sizes, single_year_age_distr),
          h5 \in generate_larger_households(5, hh_sizes, single_year_age_distr),
          h6 \in generate_larger_households(6, hh_sizes, single_year_age_distr),
          h7 \in generate_larger_households(7, hh_sizes, single_year_age_distr) :
          homes_dic' = homes_dic \o <<h2, h3, h4, h5, h6, h7>>
    /\ pc' = "shuffle_homes"
    /\ UNCHANGED <<calibVars, poolVars, adjustVars, hh_sizes, N, single_year_age_distr,
                   homes, uidVars, workerVars, staffVars, contactVars>>

\* lines 165-167: the households of every size, in increasing size
RECURSIVE all_homes(_, _)
all_homes(dic, s) == IF s \notin DOMAIN dic THEN <<>> ELSE dic[s] \o all_homes(dic, s + 1)

\* lines 165-170; the working distribution goes out of scope on return
ShuffleHomes ==
    /\ pc = "shuffle_homes"
    /\ \E shuffled \in Shuffles(all_homes(homes_dic, 1)) : homes' = shuffled
    /\ single_year_age_distr' = <<>>
    /\ pc' = "assign_uids"
    /\ UNCHANGED <<calibVars, poolVars, adjustVars, hh_sizes, N, homes_dic, uidVars,
                   workerVars, staffVars, contactVars>>

----------------------------------------------------------------------------
(* Identifiers, lines 518-523 *)

\* sp.assign_uids_by_homes: the members of the homes numbered 1, 2, ... in order
RECURSIVE assign_uids_by_homes(_, _)
assign_uids_by_homes(hs, first) ==
    IF hs = <<>> THEN <<>>
    ELSE <<[j \in 1..Len(Head(hs)) |-> first + j - 1]>>
         \o assign_uids_by_homes(Tail(hs), first + Len(Head(hs)))

\* lines 518-523
AssignUids ==
    /\ pc = "assign_uids"
    /\ homes' = facilities \o homes
    /\ homes_by_uids' = assign_uids_by_homes(homes', 1)
    /\ age_by_uid_dic' = Flatten(homes')
    /\ facilities_by_uids' = SliceTo(homes_by_uids', Len(facilities))
    /\ pc' = "schools_and_workers"
    /\ UNCHANGED <<calibVars, poolVars, adjustVars, hh_sizes, N, single_year_age_distr,
                   homes_dic, workerVars, staffVars, contactVars>>

----------------------------------------------------------------------------
(* Schools and the worker pool, lines 545-568 (sp library, as its contract) *)

\* ages enrolled in school (enrollment rate 1) and ages with an employment rate
school_ages == 5..18
employment_ages == 16..max_age
\* employment rate by age: 1 below 60, 1/2 from 60 on
employment_rates == [a \in employment_ages |-> IF a < 60 THEN [num |-> 1, den |-> 1]
                                                ELSE [num |-> 1, den |-> 2]]

\* the uids of set S in increasing order
RECURSIVE SortedSeq(_)
SortedSeq(S) ==
    IF S = {} THEN <<>>
    ELSE LET m == CHOOSE x \in S : \A y \in S : x <= y IN <<m>> \o SortedSeq(S \ {m})

\* sp.get_uids_in_school and sp.send_students_to_school: one school of all students
students(ages) == {u \in DOMAIN ages : ages[u] \in school_ages}
schools(ages) == IF students(ages) = {} THEN <<>> ELSE <<SortedSeq(students(ages))>>

\* sp.get_uids_potential_workers: everyone of employment age who is not a student
potential_workers(ages) ==
    LET in_school == students(ages)
    IN {u \in DOMAIN ages : ages[u] \in employment_ages /\ u \notin in_school}

\* sp.get_workers_by_age_to_assign: int(rate * people of that age), at most the
\* potential workers pw of that age
workers_to_assign(ages, pw, a) ==
    IF a \notin employment_ages THEN 0
    ELSE Min(Trunc(employment_rates[a].num * Cardinality({u \in DOMAIN ages : ages[u] = a}),
                   employment_rates[a].den),
             Cardinality({u \in pw : ages[u] = a}))

SetupWorkers ==
    /\ pc = "schools_and_workers"
    /\ gen_school_uids' = schools(age_by_uid_dic)
    /\ LET pw == potential_workers(age_by_uid_dic)
           present == Range(age_by_uid_dic)
       IN /\ potential_worker_uids' = pw
          /\ potential_worker_uids_by_age' =
                [a \in Ages |-> IF a \in present
                                THEN SortedSeq({u \in pw : age_by_uid_dic[u] = a})
                                ELSE <<>>]
          /\ workers_by_age_to_assign_count' =
                [a \in Ages |-> IF a \in present
                                THEN workers_to_assign(age_by_uid_dic, pw, a)
                                ELSE 0]
    /\ nf' = 1
    /\ pc' = "staff_next"
    /\ UNCHANGED <<calibVars, poolVars, adjustVars, houseVars, uidVars, facilities_staff,
                   facilities_staff_uids, drawn_ratios, n_staff, new_staff, new_staff_uids,
                   contactVars>>

----------------------------------------------------------------------------
(* Facility staff, lines 572-597 *)

\* variant of line 579 that truncates instead of rounding up
staff_needed_floor(n_residents, ratio) == (n_residents * ratio.den) \div ratio.num

\* line 579: int(math.ceil(n_residents / ratio))
staff_needed(n_residents, ratio) == Ceil(n_residents * ratio.den, ratio.num)

\* lines 575-581: the head of one iteration of the facility loop
StartFacilityStaff ==
    /\ pc = "staff_next"
    /\ nf <= Len(facilities)
    /\ \E i \in DOMAIN KC_resident_staff_ratios :
          LET resident_staff_ratio == KC_resident_staff_ratios[i] IN
          /\ n_staff' = staff_needed(Len(facilities[nf]), resident_staff_ratio)
          /\ drawn_ratios' = Append(drawn_ratios, resident_staff_ratio)
    /\ new_staff' = <<>>
    /\ new_staff_uids' = <<>>
    /\ pc' = "staff_slots"
    /\ UNCHANGED <<calibVars, poolVars, adjustVars, houseVars, uidVars, workerVars,
                   facilities_staff, facilities_staff_uids, nf, contactVars>>

\* line 584-585: the weights of the ages of staff_age_range
staff_weight_total(count) == SumOver(count, {a \in staff_age_range : count[a] /= 0})

\* line 585-586: np.random.choice takes the weights divided by their sum when the sum
\* is not 0 (no NaN) and no quotient is negative
valid_weights(count) ==
    LET total == staff_weight_total(count)
    IN /\ total /= 0
       /\ \A a \in staff_age_range : count[a] * total >= 0

\* line 586: np.random.choice draws an age of positive probability
staff_age_choices(count) == {a \in staff_age_range : count[a] /= 0}

\* line 589: list.remove(uid) drops the first occurrence of uid
list_remove(l, uid) ==
    LET i == CHOOSE k \in DOMAIN l : l[k] = uid /\ \A j \in 1..(k - 1) : l[j] /= uid
    IN SubSeq(l, 1, i - 1) \o SubSeq(l, i + 1, Len(l))

\* variant of lines 588-589 that leaves the worker in the pool
take_worker_kept(by_age, aindex) == by_age

\* lines 588-589: the by-age pool after a worker of age aindex is taken
take_worker(by_age, aindex) ==
    [by_age EXCEPT ![aindex] = list_remove(by_age[aindex], by_age[aindex][1])]

\* variant of line 591 that takes two off the count
count_after_twice(count, aindex) == [count EXCEPT ![aindex] = @ - 2]

\* line 591: workers_by_age_to_assign_count[aindex] -= 1
count_after(count, aindex) == [count EXCEPT ![aindex] = @ - 1]

\* lines 583-594: one staff slot filled
AssignStaffSlot ==
    /\ pc = "staff_slots"
    /\ Len(new_staff_uids) < n_staff
    /\ valid_weights(workers_by_age_to_assign_count)
    /\ \E aindex \in staff_age_choices(workers_by_age_to_assign_count) :
          /\ potential_worker_uids_by_age[aindex] /= <<>>
          /\ LET uid == potential_worker_uids_by_age[aindex][1] IN
             /\ potential_worker_uids_by_age' = take_worker(potential_worker_uids_by_age, aindex)
             /\ potential_worker_uids' = potential_worker_uids \ {uid}
             /\ workers_by_age_to_assign_count' =
                   count_after(workers_by_age_to_assign_count, aindex)
             /\ new_staff' = Append(new_staff, aindex)
             /\ new_staff_uids' = Append(new_staff_uids, uid)
    /\ UNCHANGED <<pc, calibVars, poolVars, adjustVars, houseVars, uidVars, gen_school_uids,
                   facilities_staff, facilities_staff_uids, drawn_ratios, nf, n_staff,
                   contactVars>>

\* variant of lines 585-588 that gives up on the open slots without an error: the
\* facility keeps the staff it got
StaffSlotTruncated ==
    /\ pc = "staff_slots"
    /\ Len(new_staff_uids) < n_staff
    /\ \/ ~valid_weights(workers_by_age_to_assign_count)
       \/ \E a \in staff_age_choices(workers_by_age_to_assign_count) :
             potential_worker_uids_by_age[a] = <<>>
    /\ facilities_staff' = Append(facilities_staff, new_staff)
    /\ facilities_staff_uids' = Append(facilities_staff_uids, new_staff_uids)
    /\ nf' = nf + 1
    /\ pc' = "staff_next"
    /\ UNCHANGED <<calibVars, poolVars, adjustVars, houseVars, uidVars, workerVars,
                   drawn_ratios, n_staff, new_staff, new_staff_uids, contactVars>>

\* lines 585-588 raising: the weights cannot be normalised to probabilities
\* (np.random.choice raises ValueError), or the list of the drawn age is empty
\* (IndexError); the exception is not caught and ends the run
StaffSlotFails ==
    /\ pc = "staff_slots"
    /\ Len(new_staff_uids) < n_staff
    /\ \/ ~valid_weights(workers_by_age_to_assign_count)
       \/ \E a \in staff_age_choices(workers_by_age_to_assign_count) :
             potential_worker_uids_by_age[a] = <<>>
    /\ pc' = "aborted"
    /\ UNCHANGED <<calibVars, poolVars, adjustVars, houseVars, uidVars, workerVars,
                   staffVars, contactVars>>

\* lines 596-597
FinishFacilityStaff ==
    /\ pc = "staff_slots"
    /\ Len(new_staff_uids) = n_staff
    /\ facilities_staff' = Append(facilities_staff, new_staff)
    /\ facilities_staff_uids' = Append(facilities_staff_uids, new_staff_uids)
    /\ nf' = nf + 1
    /\ pc' = "staff_next"
    /\ UNCHANGED <<calibVars, poolVars, adjustVars, houseVars, uidVars, workerVars,
                   drawn_ratios, n_staff, new_staff, new_staff_uids, contactVars>>

----------------------------------------------------------------------------
(* Workplaces, lines 604-610 (sp library, as its contract) *)

\* sp.assign_rest_of_workers: the workers still to assign, the first ones of each
\* age's list, sent to one workplace
rest_of_workers(by_age, count) ==
    UNION {{by_age[a][i] : i \in 1..Min(count[a], Len(by_age[a]))} : a \in Ages}

AssignWorkplaces ==
    /\ pc = "staff_next"
    /\ nf > Len(facilities)
    /\ LET ws == rest_of_workers(potential_worker_uids_by_age, workers_by_age_to_assign_count)
       IN gen_workplace_uids' = IF ws = {} THEN <<>> ELSE <<SortedSeq(ws)>>
    /\ pc' = "contacts_init"
    /\ UNCHANGED <<calibVars, poolVars, adjustVars, houseVars, uidVars, workerVars,
                   staffVars, regular_homes, popdict>>

----------------------------------------------------------------------------
(* make_contacts_with_facilities_from_microstructure_objects, lines 240-285, *)
(* called at line 621.  A record holds age, contacts, snf_res and snf_staff; *)
(* the random sex bit and the constant loc are not read anywhere and are    *)
(* left out.  None is the number 0.                                         *)

\* line 251
layer_keys == {"H", "S", "W", "C", "LTCF"}

\* variant of lines 243-252 whose loop of line 251 leaves out the community layer
new_person_without_C(age) ==
    [age |-> age, contacts |-> [k \in {"H", "S", "W", "LTCF"} |-> {}],
     snf_res |-> 0, snf_staff |-> 0]

\* lines 243-252
new_person(age) ==
    [age |-> age, contacts |-> [k \in layer_keys |-> {}], snf_res |-> 0, snf_staff |-> 0]

\* line 254
only_regular_homes(hs, facs) == SliceFrom(hs, Len(facs))

\* lines 242-254
InitPopdict ==
    /\ pc = "contacts_init"
    /\ popdict' = [uid \in DOMAIN age_by_uid_dic |-> new_person(age_by_uid_dic[uid])]
    /\ regular_homes' = only_regular_homes(homes_by_uids, facilities_by_uids)
    /\ pc' = "contacts_facilities"
    /\ UNCHANGED <<calibVars, poolVars, adjustVars, houseVars, uidVars, workerVars,
                   staffVars, gen_workplace_uids>>

\* lines 259-261: the LTCF set of resident uid
resident_contacts(facility, facility_staff, uid) ==
    (Range(facility) \cup Range(facility_staff)) \ {uid}

\* variant of lines 265-267 that forgets the union with the staff (line 266)
staff_contacts_residents_only(facility, facility_staff, uid) == Range(facility) \ {uid}

\* lines 265-267: the W set of staff member uid
staff_contacts(facility, facility_staff, uid) ==
    (Range(facility) \cup Range(facility_staff)) \ {uid}

\* variant of lines 272-273, 277-278, 282-283 without the remove(uid)
group_contacts_with_self(group, uid) == Range(group)

\* lines 272-273, 277-278, 282-283: the set of member uid of a group
group_contacts(group, uid) == Range(group) \ {uid}

\* lines 258-262: the loop over the residents of one facility
residents_loop(pd, facility, facility_staff) ==
    [uid \in DOMAIN pd |->
        IF uid \in Range(facility)
        THEN [pd[uid] EXCEPT
                 !.contacts = Put(@, "LTCF", resident_contacts(facility, facility_staff, uid)),
                 !.snf_res = 1]
        ELSE pd[uid]]

\* lines 264-268: the loop over the staff of one facility
staff_loop(pd, facility, facility_staff) ==
    [uid \in DOMAIN pd |->
        IF uid \in Range(facility_staff)
        THEN [pd[uid] EXCEPT
                 !.contacts = Put(@, "W", staff_contacts(facility, facility_staff, uid)),
                 !.snf_staff = 1]
        ELSE pd[uid]]

\* lines 256-268: the facilities in order, each with the staff list of its index
RECURSIVE facilities_loop(_, _, _)
facilities_loop(pd, facs, staffs) ==
    IF facs = <<>> THEN pd
    ELSE facilities_loop(staff_loop(residents_loop(pd, Head(facs), Head(staffs)),
                                    Head(facs), Head(staffs)),
                         Tail(facs), Tail(staffs))

\* lines 270-273, 275-278, 280-283: the groups in order, layer k of every member set
RECURSIVE groups_loop(_, _, _)
groups_loop(pd, groups, k) ==
    IF groups = <<>> THEN pd
    ELSE groups_loop([uid \in DOMAIN pd |->
                         IF uid \in Range(Head(groups))
                         THEN [pd[uid] EXCEPT
                                  !.contacts = Put(@, k, group_contacts(Head(groups), uid))]
                         ELSE pd[uid]],
                     Tail(groups), k)

\* lines 256-268; facilities_staff_uids[nf] raises when a facility has no staff list,
\* popdict[uid] when a uid has no record
FacilityContacts ==
    /\ pc = "contacts_facilities"
    /\ Len(facilities_staff_uids) >= Len(facilities_by_uids)
    /\ \A i \in DOMAIN facilities_by_uids :
          Range(facilities_by_uids[i]) \cup Range(facilities_staff_uids[i]) \subseteq DOMAIN popdict
    /\ popdict' = facilities_loop(popdict, facilities_by_uids,
                                  SliceTo(facilities_staff_uids, Len(facilities_by_uids)))
    /\ pc' = "contacts_households"
    /\ UNCHANGED <<calibVars, poolVars, adjustVars, houseVars, uidVars, workerVars,
                   staffVars, gen_workplace_uids, regular_homes>>

\* lines 270-273
HouseholdContacts ==
    /\ pc = "contacts_households"
    /\ popdict' = groups_loop(popdict, regular_homes, "H")
    /\ pc' = "contacts_schools"
    /\ UNCHANGED <<calibVars, poolVars, adjustVars, houseVars, uidVars, workerVars,
                   staffVars, gen_workplace_uids, regular_homes>>

\* lines 275-278
SchoolContacts ==
    /\ pc = "contacts_schools"
    /\ popdict' = groups_loop(popdict, gen_school_uids, "S")
    /\ pc' = "contacts_workplaces"
    /\ UNCHANGED <<calibVars, poolVars, adjustVars, houseVars, uidVars, workerVars,
                   staffVars, gen_workplace_uids, regular_homes>>

\* lines 280-285
WorkplaceContacts ==
    /\ pc = "contacts_workplaces"
    /\ popdict' = groups_loop(popdict, gen_workplace_uids, "W")
    /\ pc' = "done"
    /\ UNCHANGED <<calibVars, poolVars, adjustVars, houseVars, uidVars, workerVars,
                   staffVars, gen_workplace_uids, regular_homes>>

----------------------------------------------------------------------------
(* The pipeline: generate_microstructure_with_faciities, lines 287-633 *)

PopSizes == 1..MaxPop

Unset ==
    /\ facillity_users = <<>>
    /\ est_seattle_users_2018 = <<>>
    /\ expected_users_by_age = <<>>
    /\ shuffled_residents = <<>>
    /\ all_residents = <<>>
    /\ facilities = <<>>
    /\ drawn_sizes = <<>>
    /\ n = 0
    /\ hh_sizes = <<>>
    /\ N = 0
    /\ single_year_age_distr = <<>>
    /\ homes_dic = <<>>
    /\ homes = <<>>
    /\ potential_worker_uids = {}
    /\ potential_worker_uids_by_age = <<>>
    /\ workers_by_age_to_assign_count = <<>>
    /\ facilities_staff = <<>>
    /\ drawn_ratios = <<>>
    /\ nf = 0
    /\ n_staff = 0
    /\ new_staff = <<>>
    /\ new_staff_uids = <<>>
    /\ regular_homes = <<>>
    /\ popdict = <<>>

Init ==
    /\ pc = "calibrate"
    /\ gen_pop_size \in PopSizes
    /\ KC_ltcf_sizes = KC_resident_totals
    /\ Unset
    /\ homes_by_uids = <<>>
    /\ age_by_uid_dic = <<>>
    /\ facilities_by_uids = <<>>
    /\ gen_school_uids = <<>>
    /\ facilities_staff_uids = <<>>
    /\ gen_workplace_uids = <<>>

Next ==
    \/ Calibrate
    \/ ShuffleResidents
    \/ PlaceFacility
    \/ AdjustAgeCount
    \/ GenerateHouseholdSizes
    \/ GenerateLivingAlone
    \/ RemoveLivingAlone
    \/ GenerateLargerHouseholds
    \/ ShuffleHomes
    \/ AssignUids
    \/ SetupWorkers
    \/ StartFacilityStaff
    \/ AssignStaffSlot
    \/ StaffSlotFails
    \/ FinishFacilityStaff
    \/ AssignWorkplaces
    \/ InitPopdict
    \/ FacilityContacts
    \/ HouseholdContacts
    \/ SchoolContacts
    \/ WorkplaceContacts

Spec == Init /\ [][Next]_vars

----------------------------------------------------------------------------
(* Lines 413-507 on their own, run with any of the record files *)

InitPartition ==
    /\ pc = "calibrate"
    /\ gen_pop_size \in PopSizes
    /\ KC_ltcf_sizes \in KC_resident_totals_possible
    /\ Unset
    /\ homes_by_uids = <<>>
    /\ age_by_uid_dic = <<>>
    /\ facilities_by_uids = <<>>
    /\ gen_school_uids = <<>>
    /\ facilities_staff_uids = <<>>
    /\ gen_workplace_uids = <<>>

NextPartition ==
    \/ Calibrate
    \/ ShuffleResidents
    \/ PlaceFacility
    \/ AdjustAgeCount

SpecPartition == InitPartition /\ [][NextPartition]_vars

----------------------------------------------------------------------------
(* Lines 293-377 on their own, run with any of the survey tables *)

InitSurvey ==
    /\ pc = "survey"
    /\ facillity_users \in facillity_users_possible
    /\ est_seattle_users_2018 = [b \in Range(state_bracket_keys) |-> Rat(0, 1)]
    /\ gen_pop_size \in PopSizes
    /\ KC_ltcf_sizes = KC_resident_totals
    /\ expected_users_by_age = <<>>
    /\ shuffled_residents = <<>>
    /\ all_residents = <<>>
    /\ facilities = <<>>
    /\ drawn_sizes = <<>>
    /\ n = 0
    /\ hh_sizes = <<>>
    /\ N = 0
    /\ single_year_age_distr = <<>>
    /\ homes_dic = <<>>
    /\ homes = <<>>
    /\ potential_worker_uids = {}
    /\ potential_worker_uids_by_age = <<>>
    /\ workers_by_age_to_assign_count = <<>>
    /\ facilities_staff = <<>>
    /\ drawn_ratios = <<>>
    /\ nf = 0
    /\ n_staff = 0
    /\ new_staff = <<>>
    /\ new_staff_uids = <<>>
    /\ regular_homes = <<>>
    /\ popdict = <<>>
    /\ homes_by_uids = <<>>
    /\ age_by_uid_dic = <<>>
    /\ facilities_by_uids = <<>>
    /\ gen_school_uids = <<>>
    /\ facilities_staff_uids = <<>>
    /\ gen_workplace_uids = <<>>

NextSurvey == EstimateUsers

SpecSurvey == InitSurvey /\ [][NextSurvey]_vars

----------------------------------------------------------------------------
(* make_contacts_with_facilities_from_microstructure_objects on its own: the *)
(* arguments are any groups over the uids 1..NumUids, overlapping or not     *)

ContactGroups == {SortedSeq(S) : S \in SUBSET (1..NumUids)}
EveryoneOrNobody == {<<>>, <<SortedSeq(1..NumUids)>>}

InitContacts ==
    /\ pc = "contacts_init"
    /\ gen_pop_size = NumUids
    /\ KC_ltcf_sizes = KC_resident_totals
    /\ Unset
    /\ age_by_uid_dic = [uid \in 1..NumUids |-> staff_age_lo + uid]
    /\ \E f1 \in ContactGroups, f2 \in ContactGroups :
          facilities_by_uids = <<f1, f2>>
    /\ \E s1 \in ContactGroups, s2 \in ContactGroups :
          facilities_staff_uids = <<s1, s2>>
    /\ \E hs \in EveryoneOrNobody : homes_by_uids = facilities_by_uids \o hs
    /\ gen_school_uids \in EveryoneOrNobody
    /\ \E w \in ContactGroups : gen_workplace_uids = <<w>>

NextContacts ==
    \/ InitPopdict
    \/ FacilityContacts
    \/ HouseholdContacts
    \/ SchoolContacts
    \/ WorkplaceContacts

SpecContacts == InitContacts /\ [][NextContacts]_vars

----------------------------------------------------------------------------
(* Properties of the pipeline (Spec) *)

\* the pipeline is past the return of generate_all_households (line 517)
HouseholdsReturned ==
    pc \in {"assign_uids", "schools_and_workers", "staff_next", "staff_slots", "aborted",
            "contacts_init", "contacts_facilities", "contacts_households",
            "contacts_schools", "contacts_workplaces", "done"}

\* the ordinary households: homes until line 518 puts the facilities in front of them
ordinary_households ==
    IF pc = "assign_uids" THEN homes ELSE SliceFrom(homes, Len(facilities))

\* C1: once the households are generated, the sizes of the ordinary households plus
\* the sizes of the facilities add up to gen_pop_size, and from line 520 on the uids
\* are 1..gen_pop_size, one for each member of a home
C1_PopulationSizeKept ==
    HouseholdsReturned =>
        /\ SumSeq(Lens(ordinary_households)) + SumSeq(Lens(facilities)) = gen_pop_size
        /\ pc /= "assign_uids" =>
              /\ DOMAIN age_by_uid_dic = 1..gen_pop_size
              /\ Flatten(homes_by_uids) = [u \in 1..gen_pop_size |-> u]

\* a finished run with two facilities and a household of two
C1_Witness ==
    /\ pc = "done"
    /\ Len(facilities) = 2
    /\ \E i \in DOMAIN ordinary_households : Len(ordinary_households[i]) = 2

\* C2: in the returned record, in every layer, A is in the contact set of B exactly
\* when B is in the contact set of A, residents and staff of a facility included
C2_ContactsSymmetric ==
    pc = "done" =>
        \A k \in {"H", "S", "W", "C", "LTCF"} :
            \A A \in DOMAIN popdict, B \in DOMAIN popdict :
                A \in popdict[B].contacts[k] <=> B \in popdict[A].contacts[k]

\* C4: every facility whose staff list is finished has the least number of staff
\* that is at least residents / ratio, the residents being those the facility holds
C4_StaffCountIsCeiling ==
    \A i \in DOMAIN facilities_staff_uids :
        LET staff == Len(facilities_staff_uids[i])
            residents == Len(facilities[i])
            ratio == drawn_ratios[i]
        IN /\ staff * ratio.num >= residents * ratio.den
           /\ (staff - 1) * ratio.num < residents * ratio.den
           /\ Len(facilities_staff[i]) = staff

\* every facility is staffed, one of them truncated, its residents no multiple of the ratio
C4_Witness ==
    /\ pc = "staff_next"
    /\ nf > Len(facilities)
    /\ \E i \in DOMAIN facilities :
          /\ Len(facilities[i]) < drawn_sizes[i]
          /\ (Len(facilities[i]) * drawn_ratios[i].den) % drawn_ratios[i].num /= 0

\* the staff uids assigned so far, the unfinished list of the current facility included
assigned_staff_uids ==
    Flatten(facilities_staff_uids) \o (IF pc = "staff_slots" THEN new_staff_uids ELSE <<>>)

\* C5: no uid is assigned to two staff slots, of one facility or of two, and an
\* assigned uid is in the worker pool no more
C5_NoWorkerAssignedTwice ==
    /\ \A i \in DOMAIN assigned_staff_uids, j \in DOMAIN assigned_staff_uids :
          assigned_staff_uids[i] = assigned_staff_uids[j] => i = j
    /\ \A i \in DOMAIN assigned_staff_uids :
          /\ assigned_staff_uids[i] \notin potential_worker_uids
          /\ \A a \in DOMAIN potential_worker_uids_by_age :
                assigned_staff_uids[i] \notin Range(potential_worker_uids_by_age[a])

\* two facilities staffed
C5_Witness ==
    /\ pc = "done"
    /\ Len(facilities_staff_uids) = 2
    /\ \A i \in DOMAIN facilities_staff_uids : Len(facilities_staff_uids[i]) >= 1

\* C6: the facilities in creation order followed by the pool still to place are the
\* shuffled pool; every facility but the last has its drawn size, the last one the
\* smaller of its drawn size and of what was left of the pool
C6_PartitionWithoutReplacement ==
    pc \notin {"calibrate", "pool"} =>
        /\ Flatten(facilities) \o all_residents = shuffled_residents
        /\ SumSeq(Lens(facilities)) <= Len(shuffled_residents)
        /\ Len(drawn_sizes) = Len(facilities)
        /\ \A i \in DOMAIN facilities :
              LET left == Len(shuffled_residents) - SumSeq(Lens(SubSeq(facilities, 1, i - 1)))
              IN IF i < Len(facilities)
                 THEN Len(facilities[i]) = drawn_sizes[i]
                 ELSE Len(facilities[i]) = Min(drawn_sizes[i], left)

\* the pool is used up and the last facility is smaller than its drawn size
C6_Witness ==
    /\ pc = "hh_sizes"
    /\ Len(facilities) >= 2
    /\ Len(facilities[Len(facilities)]) < drawn_sizes[Len(facilities)]

\* C7: the distribution generate_all_households works on, as it is on entry, is the
\* renormalised ltcf_adjusted_age_count (equal as fractions)
C7_AdjustedDistributionUsed ==
    pc = "remove_living_alone" =>
        \A a \in Ages :
            single_year_age_distr.num[a] * ltcf_adjusted_age_distr.den
                = ltcf_adjusted_age_distr.num[a] * single_year_age_distr.den

\* total mass of a distribution, as a numerator over its den
mass_num(distr) == SumRange(distr.num, 0, max_age)

\* C8: when the working distribution has mass 1 before the removal of lines 158-159,
\* its mass after it is 1 - (number of one-person households) / N
C8_DepletionAfterLivingAlone ==
    [][(/\ pc = "remove_living_alone"
        /\ N > 0
        /\ mass_num(single_year_age_distr) = single_year_age_distr.den)
       => mass_num(single_year_age_distr') * N
              = single_year_age_distr'.den * (N - Len(homes_dic[1]))]_vars

\* the heads of two one-person households have been removed
C8_Witness ==
    /\ pc = "larger_households"
    /\ N > 0
    /\ Len(homes_dic[1]) = 2
    /\ mass_num(single_year_age_distr) * N = single_year_age_distr.den * (N - 2)

\* the pipeline is past line 507
PopulationAdjusted == HouseholdsReturned \/ pc \in {"hh_sizes", "call_households",
    "remove_living_alone", "larger_households", "shuffle_homes"}

\* everybody the households of homes_dic hold
RECURSIVE allocated(_, _)
allocated(dic, s) ==
    IF s \notin DOMAIN dic THEN 0 ELSE s * Len(dic[s]) + allocated(dic, s + 1)

\* C15: when generate_larger_households has run for the sizes 2..7, the working
\* distribution (mass 1 on entry) has lost 1/N for every individual of a household of
\* any size, head or member
C15_DepletedForEverySize ==
    (pc = "shuffle_homes" /\ N > 0) =>
        mass_num(single_year_age_distr) * N
            = single_year_age_distr.den * (N - allocated(homes_dic, 1))

\* C17: the pooled residents are at most gen_pop_size, n of line 507 is not
\* negative, and no entry of ltcf_adjusted_age_count is negative
C17_NeverNegative ==
    /\ pc \notin {"calibrate", "pool"} => Len(shuffled_residents) <= gen_pop_size
    /\ PopulationAdjusted =>
          /\ n >= 0
          /\ \A a \in Ages : ltcf_adjusted_age_count[a] >= 0

\* the staff loop of lines 575-597 is over and the run goes on
StaffLoopDone ==
    pc \in {"contacts_init", "contacts_facilities", "contacts_households",
            "contacts_schools", "contacts_workplaces", "done"}

\* every facility has a staff list of at least residents / ratio members
FullyStaffed ==
    /\ Len(facilities_staff_uids) = Len(facilities)
    /\ \A i \in DOMAIN facilities :
          Len(facilities_staff_uids[i]) * drawn_ratios[i].num
              >= Len(facilities[i]) * drawn_ratios[i].den

\* a slot is open and no age of 20-59 has both a worker to assign and a uid
NoWorkerLeft ==
    /\ pc = "staff_slots"
    /\ Len(new_staff_uids) < n_staff
    /\ \A a \in staff_age_range :
          workers_by_age_to_assign_count[a] = 0 \/ potential_worker_uids_by_age[a] = <<>>

\* C12: with a slot open and no worker left the only step is the abort, nothing
\* follows an abort, no record is built in an aborted run, and a run that goes on
\* past the staff loop has every facility staffed in full
C12_ExhaustionAborts ==
    /\ [][NoWorkerLeft => pc' = "aborted"]_vars
    /\ [][pc /= "aborted"]_vars
    /\ [](pc = "aborted" => popdict = <<>>)
    /\ []((StaffLoopDone \/ popdict /= <<>>) => FullyStaffed)

\* a run aborted after it had filled a slot of the facility
C12_Witness ==
    /\ pc = "aborted"
    /\ Len(new_staff_uids) >= 1
    /\ Len(new_staff_uids) < n_staff
    /\ \A a \in staff_age_range : workers_by_age_to_assign_count[a] = 0

\* a step that fills a staff slot
StaffSlotFilled == pc = "staff_slots" /\ Len(new_staff_uids') = Len(new_staff_uids) + 1

\* the workers to assign before the staff loop, over all ages
workers_to_assign_total ==
    LET pw == potential_workers(age_by_uid_dic)
    IN SumOver([a \in Ages |-> workers_to_assign(age_by_uid_dic, pw, a)],
               Range(age_by_uid_dic))

\* C14: a step that fills a slot draws an age of 20-59 with a positive count, takes
\* one uid of that age out of the by-age pool and the same uid out of the by-uid pool,
\* takes one off the count of that age and changes nothing else of the pools; no
\* count is ever negative, no assigned uid stays in a pool, and after the loop the
\* counts have dropped by the number of staff
C14_SlotBookkeeping ==
    /\ [][StaffSlotFilled =>
            LET a == new_staff'[Len(new_staff')]
                uid == new_staff_uids'[Len(new_staff_uids')]
            IN /\ a \in staff_age_range
               /\ workers_by_age_to_assign_count[a] > 0
               /\ age_by_uid_dic[uid] = a
               /\ uid \in Range(potential_worker_uids_by_age[a])
               /\ uid \in potential_worker_uids
               /\ Len(potential_worker_uids_by_age'[a]) = Len(potential_worker_uids_by_age[a]) - 1
               /\ uid \notin Range(potential_worker_uids_by_age'[a])
               /\ potential_worker_uids' = potential_worker_uids \ {uid}
               /\ workers_by_age_to_assign_count'[a] = workers_by_age_to_assign_count[a] - 1
               /\ \A b \in Ages \ {a} :
                     /\ potential_worker_uids_by_age'[b] = potential_worker_uids_by_age[b]
                     /\ workers_by_age_to_assign_count'[b] = workers_by_age_to_assign_count[b]]_vars
    /\ [](\A a \in DOMAIN workers_by_age_to_assign_count :
             workers_by_age_to_assign_count[a] >= 0)
    /\ [](StaffLoopDone =>
             /\ SumOver(workers_by_age_to_assign_count, Range(age_by_uid_dic))
                    + Len(Flatten(facilities_staff_uids)) = workers_to_assign_total
             /\ \A i \in DOMAIN facilities_staff_uids :
                   \A k \in DOMAIN facilities_staff_uids[i] :
                       LET uid == facilities_staff_uids[i][k]
                       IN /\ uid \notin potential_worker_uids
                          /\ uid \notin Range(potential_worker_uids_by_age[age_by_uid_dic[uid]]))

\* the loop is over with staff in two facilities
C14_Witness ==
    /\ pc = "contacts_init"
    /\ Len(facilities_staff_uids) = 2
    /\ Len(Flatten(facilities_staff_uids)) >= 2

----------------------------------------------------------------------------
(* Properties of the partition loop (SpecPartition) *)

\* C13: every iteration of the loop of lines 484-488 takes at least one resident off
\* the pool, so there are never more facilities than residents pooled
C13_PartitionTerminates ==
    /\ [][(pc = "partition" /\ pc' = "partition") =>
             Len(all_residents') < Len(all_residents)]_vars
    /\ [](pc = "partition" => Len(facilities) <= Len(shuffled_residents))

----------------------------------------------------------------------------
(* Properties of the survey estimate (SpecSurvey) *)

\* C16: for each of the four brackets the estimated local users are the sum over
\* the facility types of local elderly / state elderly of year 2 x growth factor
\* x the type's bracket fraction x the type's total users
C16_UsersFromLocalElderlyShare ==
    pc = "survey_done" =>
        \A j \in DOMAIN ltcf_age_bracket_keys :
            LET ab == ltcf_age_bracket_keys[j]
                share == RatMul(local_perc_elderly_2018, growth_since_2016)
            IN est_seattle_users_2018[state_bracket_of(ab)]
                   = RatSum([i \in DOMAIN facility_keys |->
                                RatMul(share,
                                       RatMul(facillity_users[facility_keys[i]][ab],
                                              Rat(facillity_users[facility_keys[i]]["Total"], 1)))])


\* the loops of lines 243-252 have run
RecordsMade ==
    pc \in {"contacts_facilities", "contacts_households", "contacts_schools",
            "contacts_workplaces", "done"}

\* C3: no uid is in its own contact set, in any layer, at any point of the builder
C3_NoSelfContact ==
    RecordsMade =>
        \A uid \in DOMAIN popdict :
            \A k \in {"H", "S", "W", "C", "LTCF"} : uid \notin popdict[uid].contacts[k]

\* a uid that is resident of the first facility, staff of the second, and member of
\* the household, the school and the workplace, with contacts in every built layer
C3_Witness ==
    /\ pc = "done"
    /\ \E uid \in DOMAIN popdict :
          /\ uid \in Range(facilities_by_uids[1])
          /\ uid \in Range(facilities_staff_uids[2])
          /\ \A k \in {"H", "S", "W", "LTCF"} : popdict[uid].contacts[k] /= {}

\* C9: there is one record for each uid of age_by_uid_dic, and the contacts of each
\* record have the five keys H, S, W, C, LTCF, each a set of uids
C9_AllLayerKeys ==
    RecordsMade =>
        /\ DOMAIN popdict = DOMAIN age_by_uid_dic
        /\ \A uid \in DOMAIN popdict :
              /\ DOMAIN popdict[uid].contacts = {"H", "S", "W", "C", "LTCF"}
              /\ \A k \in {"H", "S", "W", "C", "LTCF"} :
                    popdict[uid].contacts[k] \subseteq DOMAIN age_by_uid_dic

\* a uid of no group at all next to a uid that has contacts
C9_Witness ==
    /\ pc = "done"
    /\ \E uid \in DOMAIN popdict :
          \A k \in {"H", "S", "W", "C", "LTCF"} : popdict[uid].contacts[k] = {}
    /\ \E uid \in DOMAIN popdict : popdict[uid].contacts["W"] /= {}

\* the groups a uid belongs to through facility i
facility_members(i) == Range(facilities_by_uids[i]) \cup Range(facilities_staff_uids[i])

\* every uid is in at most one facility, as a resident or as staff, and only once
OneFacilityEach ==
    /\ \A i \in DOMAIN facilities_by_uids, j \in DOMAIN facilities_by_uids :
          i /= j => facility_members(i) \cap facility_members(j) = {}
    /\ \A i \in DOMAIN facilities_by_uids :
          Range(facilities_by_uids[i]) \cap Range(facilities_staff_uids[i]) = {}

\* no staff member is in an ordinary workplace
StaffInNoWorkplace ==
    \A i \in DOMAIN facilities_by_uids, w \in DOMAIN gen_workplace_uids :
        Range(facilities_staff_uids[i]) \cap Range(gen_workplace_uids[w]) = {}

\* C10: under OneFacilityEach and StaffInNoWorkplace, in the final record a resident
\* has LTCF = (residents and staff of its facility) minus itself and snf_res set, a
\* staff member has W = the same set minus itself and snf_staff set; right after the
\* facility loop nobody has H contacts, and in the final record the H contacts of a
\* staff member are people of an ordinary household it lives in
C10_FacilityContacts ==
    (OneFacilityEach /\ StaffInNoWorkplace) =>
        /\ pc = "done" =>
              \A i \in DOMAIN facilities_by_uids :
                  /\ \A uid \in Range(facilities_by_uids[i]) :
                        /\ popdict[uid].contacts["LTCF"] = facility_members(i) \ {uid}
                        /\ popdict[uid].snf_res = 1
                  /\ \A uid \in Range(facilities_staff_uids[i]) :
                        /\ popdict[uid].contacts["W"] = facility_members(i) \ {uid}
                        /\ popdict[uid].snf_staff = 1
                        /\ \A other \in popdict[uid].contacts["H"] :
                              \E h \in DOMAIN regular_homes :
                                  {uid, other} \subseteq Range(regular_homes[h])
        /\ pc = "contacts_households" =>
              \A uid \in DOMAIN popdict : popdict[uid].contacts["H"] = {}

\* a facility with a resident and a staff member, who lives in no ordinary household
C10_Witness ==
    /\ pc = "done"
    /\ OneFacilityEach
    /\ StaffInNoWorkplace
    /\ \E i \in DOMAIN facilities_by_uids :
          /\ Range(facilities_by_uids[i]) /= {}
          /\ \E uid \in Range(facilities_staff_uids[i]) :
                /\ popdict[uid].contacts["W"] /= {}
                /\ popdict[uid].contacts["H"] = {}

====
